---- MODULE Spec2Model ----
(***************************************************************************)
(* Model of process.ipynb of brewson: the notebook that reads the ERA5     *)
(* monthly-mean files, computes the residual (Brewer-Dobson) circulation   *)
(* and the Eliassen-Palm flux divergence, and saves the zonal means.       *)
(*                                                                         *)
(* The notebook is run top to bottom ("run all"): an exception in a cell   *)
(* stops the run.  Cells 3 and 4 and the coordinate part of cell 9 are     *)
(* eager; the field arithmetic of cells 4-9 only builds a dask graph,      *)
(* which job.compute() evaluates one time chunk (one yearly file) at a     *)
(* time.                                                                   *)
(*                                                                         *)
(* Numbers.  A float is modelled as an extended rational <<n, d>> in       *)
(* lowest terms with d >= 0: d > 0 is the finite value n/d, <<1, 0>> is    *)
(* +inf, <<-1, 0>> is -inf and <<0, 0>> is NaN.  Arithmetic follows IEEE   *)
(* 754 on these (x/0 = inf, 0/0 = inf*0 = inf-inf = NaN, NaN absorbs), but *)
(* is exact on finite values: rounding and the sign of zero are not        *)
(* modelled.  A result too large to be held exactly is the untracked float *)
(* Unk.  The transcendental functions are modelled on the inputs the       *)
(* model draws: log and exp on powers of two (in units of ln 2), the power *)
(* x^0.286 on powers of two, sin and cos on the latitudes of the grids.    *)
(***************************************************************************)
EXTENDS Integers, Sequences, FiniteSets, TLC

VARIABLES
    pc,        \* the cell (or graph task) the run has reached
    err,       \* the exception that stopped the run, or "none"
    dirs,      \* os.listdir(era_dir): the year directories
    listing,   \* os.listdir(year_dir) of every year directory
    grid,      \* the coordinates stored in the input files
    data,      \* the values stored in the input files
    years,     \* cell 2: years
    ds_fnames, \* cell 3: ds_fnames
    yi,        \* cell 3: index of the year the outer loop is at
    ni,        \* cell 3: index of the name the inner loop is at
    ds,        \* cell 4: the coordinates of the dataset ds
    p_surf,    \* cell 4: p_surf
    graph,     \* the lazy (dask) arrays defined so far, by name
    out,       \* cell 9: the coordinates of the output dataset
    job,       \* cell 9: the delayed write returned by to_netcdf
    chunk,     \* job.compute(): the time chunk being evaluated
    mem,       \* job.compute(): the arrays evaluated for that chunk
    disk,      \* the output file
    writes     \* how many times the write of the output was triggered

vars == <<pc, err, dirs, listing, grid, data, years, ds_fnames, yi, ni, ds, p_surf,
          graph, out, job, chunk, mem, disk, writes>>

-----------------------------------------------------------------------------
(* Bounds of the model.                                                    *)

MaxYears == 2
MaxMissing == 1
MaxLevels == 3
NLon == 4

-----------------------------------------------------------------------------
(* Extended rational arithmetic (IEEE 754 without rounding).               *)

Abs(n) == IF n < 0 THEN -n ELSE n

Sign(n) == IF n < 0 THEN -1 ELSE IF n > 0 THEN 1 ELSE 0

RECURSIVE Gcd(_, _)
Gcd(m, n) == IF n = 0 THEN m ELSE Gcd(n, m % n)

Norm(n, d) ==
    IF d = 0 THEN <<Sign(n), 0>>
    ELSE LET g == Gcd(Abs(n), Abs(d)) IN
         IF d < 0 THEN <<(-n) \div g, (-d) \div g>> ELSE <<n \div g, d \div g>>

NaN == <<0, 0>>
Zero == <<0, 1>>
One == <<1, 1>>

\* a float the model does not track, <<0, -1>>: the exact result has a
\* numerator or a denominator beyond the integers of the checker.  It stands
\* for any float (finite, infinite or NaN); only NaN absorbs it.
Unk == <<0, -1>>

Limit == 32768 * 32768 - 1

Fits(m, n) == n = 0 \/ Abs(m) <= Limit \div Abs(n)

I2F(n) == <<n, 1>>

IsNaN(x) == x = NaN
IsUnk(x) == x[2] < 0
IsFinite(x) == x[2] > 0

FNeg(x) == <<-x[1], x[2]>>

FMul(x, y) ==
    IF IsNaN(x) \/ IsNaN(y) THEN NaN
    ELSE IF IsUnk(x) \/ IsUnk(y) THEN Unk
    ELSE IF x[2] = 0 \/ y[2] = 0 THEN <<Sign(x[1]) * Sign(y[1]), 0>>
    ELSE LET g1 == Gcd(Abs(x[1]), y[2])
             g2 == Gcd(Abs(y[1]), x[2])
             n1 == x[1] \div g1
             n2 == y[1] \div g2
             d1 == x[2] \div g2
             d2 == y[2] \div g1
         IN IF Fits(n1, n2) /\ Fits(d1, d2) THEN <<n1 * n2, d1 * d2>> ELSE Unk

FRecip(x) ==
    IF IsNaN(x) THEN NaN
    ELSE IF IsUnk(x) THEN Unk
    ELSE IF x[2] = 0 THEN Zero
    ELSE IF x[1] = 0 THEN <<1, 0>>
    ELSE IF x[1] < 0 THEN <<-x[2], -x[1]>>
    ELSE <<x[2], x[1]>>

FDiv(x, y) == FMul(x, FRecip(y))

FAdd(x, y) ==
    IF IsNaN(x) \/ IsNaN(y) THEN NaN
    ELSE IF IsUnk(x) \/ IsUnk(y) THEN Unk
    ELSE IF x[2] = 0 /\ y[2] = 0 THEN (IF x[1] = y[1] THEN x ELSE NaN)
    ELSE IF x[2] = 0 THEN x
    ELSE IF y[2] = 0 THEN y
    ELSE LET g == Gcd(x[2], y[2])
             e1 == y[2] \div g
             e2 == x[2] \div g
         IN IF Fits(x[1], e1) /\ Fits(y[1], e2) /\ Fits(e2, y[2])
            THEN Norm(x[1] * e1 + y[1] * e2, e2 * y[2])
            ELSE Unk

FSub(x, y) == FAdd(x, FNeg(y))

RECURSIVE FSum(_)
FSum(s) == IF s = <<>> THEN Zero ELSE FAdd(Head(s), FSum(Tail(s)))

RECURSIVE Pow(_, _)
Pow(b, e) == IF e = 0 THEN 1 ELSE b * Pow(b, e - 1)

-----------------------------------------------------------------------------
(* Strings are sequences of one-character strings.                         *)

Contains(sub, s) ==
    \E k \in 0..(Len(s) - Len(sub)) : SubSeq(s, k + 1, k + Len(sub)) = sub

EndsWith(s, suf) ==
    Len(s) >= Len(suf) /\ SubSeq(s, Len(s) - Len(suf) + 1, Len(s)) = suf

Lower(c) == IF c = "T" THEN "t" ELSE IF c = "Z" THEN "z" ELSE c

-----------------------------------------------------------------------------
(* Program constants.                                                      *)

names == <<"u", "v", "w", "T", "Z">>

H == 6800

a == 6370000

\* Omega = 7.292e-5
Omega == <<7292, 100000000>>

\* 9.8, the divisor of Phi
g0 == <<98, 10>>

\* np.pi, by the rational 22/7
Pi == <<22, 7>>

\* every yearly input file holds twelve monthly means, and is one dask chunk
MonthsPerFile == 12

-----------------------------------------------------------------------------
(* The transcendental functions, on the inputs the model draws.            *)

RECURSIVE Ilog2(_)
Ilog2(m) == IF m <= 1 THEN 0 ELSE 1 + Ilog2(m \div 2)

\* np.log(r) of a positive power of two r, in units of ln 2
Log(r) == I2F(Ilog2(r[1]) - Ilog2(r[2]))

\* np.exp(x) of x given in units of ln 2 (x an integer)
Exp(x) == IF x[1] >= 0 THEN <<Pow(2, x[1]), 1>> ELSE <<1, Pow(2, -x[1])>>

\* r ** 0.286 of a positive power of two r = 2^e: 2^0.286 = 1.2193 is taken
\* as 6/5, so that the result is (6/5)^e
PowKappa(r) ==
    LET e == Ilog2(r[1]) - Ilog2(r[2])
    IN IF e >= 0 THEN <<Pow(6, e), Pow(5, e)>> ELSE <<Pow(5, -e), Pow(6, -e)>>

\* the angle x (radians) in degrees, to look x up in the tables below
DegOf(x) == FDiv(FMul(I2F(180), x), Pi)[1]

\* np.cos(x) at the grid's angles.  No float equals pi/2, and np.cos at the
\* float nearest to it is 6.1e-17, not 0: a small positive number.
Cos(x) ==
    LET d == Abs(DegOf(x))
    IN IF d = 0 THEN One ELSE IF d = 60 THEN <<1, 2>> ELSE <<1, 1000000>>

\* np.sin(x) at the grid's angles (sin 60 = 0.866 is taken as 13/15)
Sin(x) ==
    LET d == DegOf(x)
    IN IF d = 0 THEN Zero
       ELSE IF Abs(d) = 60 THEN <<Sign(d) * 13, 15>>
       ELSE <<Sign(d), 1>>

-----------------------------------------------------------------------------
(* The input: the archive on disk.                                         *)

FirstYear == 1979

\* the file of variable n in a year directory, and a file that is no netCDF
FileOf(n) == <<"e", "5", "_", Lower(n), ".", "n", "c">>
Decoy == <<"e", "5", "_", "u", ".", "i", "d", "x">>

NameSet == {names[k] : k \in 1..Len(names)}

\* pressure levels (hPa) are powers of two; stored by ascending or by
\* descending pressure
LevelPool == {128, 256, 512, 1024}

RECURSIVE SortedSeq(_)
SortedSeq(S) ==
    IF S = {} THEN <<>>
    ELSE LET m == CHOOSE x \in S : \A y \in S : x <= y
         IN <<m>> \o SortedSeq(S \ {m})

Reverse(s) == [k \in 1..Len(s) |-> s[Len(s) + 1 - k]]

LevelSeqs ==
    LET asc == {SortedSeq(S) : S \in {X \in SUBSET LevelPool :
                                        Cardinality(X) >= 2 /\ Cardinality(X) <= MaxLevels}}
    IN asc \cup {Reverse(s) : s \in asc}

\* latitude grids (degrees north), stored north to south as ERA5 does or
\* south to north
LatGrids == {<<90, 0, -90>>, <<60, 0, -60>>, <<-90, 0, 90>>, <<90, 60, 0, -60, -90>>}

Range(s) == {s[k] : k \in 1..Len(s)}

\* the values a file holds, by a named pattern: at level index k (from 1),
\* level value lev (hPa), latitude deg (degrees) and longitude index i
Pattern(pat, k, lev, deg, i) ==
    CASE pat.kind = "zero" -> Zero
      [] pat.kind = "one" -> One
      [] pat.kind = "wave" -> IF i % 2 = 1 THEN One ELSE <<-1, 1>>
      [] pat.kind = "wave2" -> IF ((i - 1) \div 2) % 2 = 0 THEN One ELSE <<-1, 1>>
      [] pat.kind = "sinlat" -> Sin(FDiv(FMul(Pi, I2F(deg)), I2F(180)))
      [] pat.kind = "lapse" -> I2F(280 - 5 * (k - 1))
      [] pat.kind = "warmwave" -> IF i % 2 = 1 THEN I2F(290) ELSE I2F(270)
      [] pat.kind = "warmwave2" ->
            IF ((i - 1) \div 2) % 2 = 0 THEN I2F(290) ELSE I2F(270)
      [] pat.kind = "isentropic" ->
            FMul(I2F(200), PowKappa(<<lev, 128>>))
      [] pat.kind = "const" -> I2F(98)
      [] pat.kind = "hydro" -> I2F(98 * (11 - Ilog2(lev)))
      [] pat.kind = "hydrowave" ->
            IF i % 2 = 1 THEN I2F(98 * (11 - Ilog2(lev))) ELSE I2F(98)
      [] pat.kind = "profile" -> I2F(pat.prof[k])

Pat(kind) == [kind |-> kind, prof |-> <<>>]

Profile(s) == [kind |-> "profile", prof |-> s]

\* the content of files that are complete and agree: what a run that stops in
\* cell 3 never reads
DefaultLevel == <<256, 512, 1024>>
DefaultLat == <<90, 0, -90>>
DefaultGrid == [level |-> DefaultLevel, latitude |-> [n \in NameSet |-> DefaultLat]]
DefaultData ==
    [n \in NameSet |->
        CASE n = "u" -> Pat("sinlat")
          [] n = "v" -> Pat("wave")
          [] n = "w" -> Pat("one")
          [] n = "T" -> Pat("warmwave")
          [] n = "Z" -> Pat("hydro")]

\* the year directories, and the listings with at most MaxMissing files
\* missing, with or without a file that is no netCDF beside them
DirSets == {FirstYear..(FirstYear + n - 1) : n \in 1..MaxYears}

Listings(D) ==
    {[y \in D |-> {FileOf(n) : n \in {m \in NameSet : <<y, m>> \notin M}}
                    \cup (IF decoy THEN {Decoy} ELSE {})] :
        M \in {X \in SUBSET (D \X NameSet) : Cardinality(X) <= MaxMissing},
        decoy \in BOOLEAN}

Complete(D, L) == \A y \in D : \A n \in NameSet : FileOf(n) \in L[y]

\* the initial state: the archive as found, nothing run yet
InitOf(Dirs, Grids, Datas) ==
    /\ dirs \in Dirs
    /\ listing \in Listings(dirs)
    /\ \/ Complete(dirs, listing) /\ grid \in Grids /\ data \in Datas
       \/ ~Complete(dirs, listing) /\ grid = DefaultGrid /\ data = DefaultData
    /\ pc = "cell2"
    /\ err = "none"
    /\ years = <<>>
    /\ ds_fnames = <<>>
    /\ yi = 1
    /\ ni = 1
    /\ ds = <<>>
    /\ p_surf = NaN
    /\ graph = {}
    /\ out = <<>>
    /\ job = "none"
    /\ chunk = 0
    /\ mem = <<>>
    /\ disk = [exists |-> FALSE, coords |-> <<>>, chunks |-> <<>>, closed |-> FALSE]
    /\ writes = 0

-----------------------------------------------------------------------------
(* Cell 2: the years.                                                      *)

ListYears ==
    /\ pc = "cell2"
    /\ years' = SortedSeq(dirs)
    /\ pc' = "cell3"
    /\ UNCHANGED <<err, dirs, listing, grid, data, ds_fnames, yi, ni, ds, p_surf,
                   graph, out, job, chunk, mem, disk, writes>>

-----------------------------------------------------------------------------
(* Cell 3: the names of the files, one loop iteration per action.          *)

\* a variant of fnames: every entry of the directory, whatever its extension
fnames_unfiltered(year) == listing[year]

\* fnames = [x for x in os.listdir(year_dir) if x.endswith('nc')]
fnames(year) == {x \in listing[year] : EndsWith(x, <<"n", "c">>)}

\* [x for x in fnames if f'_{name.lower()}.' in x]
Matches(year, name) ==
    {x \in fnames(year) : Contains(<<"_", Lower(name), ".">>, x)}

\* [...][0] of a non-empty list: the file is found and appended
DiscoverFile ==
    /\ pc = "cell3"
    /\ yi <= Len(years)
    /\ Matches(years[yi], names[ni]) # {}
    /\ \E fname \in Matches(years[yi], names[ni]) :
          ds_fnames' = Append(ds_fnames, <<years[yi], fname>>)
    /\ IF ni < Len(names)
       THEN ni' = ni + 1 /\ yi' = yi
       ELSE ni' = 1 /\ yi' = yi + 1
    /\ UNCHANGED <<pc, err, dirs, listing, grid, data, years, ds, p_surf,
                   graph, out, job, chunk, mem, disk, writes>>

\* [...][0] of an empty list raises IndexError: the run stops in cell 3
DiscoverMissing ==
    /\ pc = "cell3"
    /\ yi <= Len(years)
    /\ Matches(years[yi], names[ni]) = {}
    /\ err' = "IndexError"
    /\ pc' = "error"
    /\ UNCHANGED <<dirs, listing, grid, data, years, ds_fnames, yi, ni, ds, p_surf,
                   graph, out, job, chunk, mem, disk, writes>>

\* the loop is over: the count is printed (and not checked)
DiscoverDone ==
    /\ pc = "cell3"
    /\ yi > Len(years)
    /\ pc' = "cell4"
    /\ UNCHANGED <<err, dirs, listing, grid, data, years, ds_fnames, yi, ni, ds,
                   p_surf, graph, out, job, chunk, mem, disk, writes>>

-----------------------------------------------------------------------------
(* Cell 4: the dataset and its coordinates.                                *)

\* xr.open_mfdataset(..., combine='by_coords'): the latitude index of the
\* combined dataset.  Variables whose files agree keep the stored index; when
\* they differ the indexes are joined (join='outer', the default): the sorted
\* union, every variable filled with NaN where its files have no value.
MergedLat ==
    LET used == {grid.latitude[n] : n \in NameSet}
    IN IF Cardinality(used) = 1
       THEN grid.latitude["u"]
       ELSE SortedSeq(UNION {Range(s) : s \in used})

\* the time index: the months of the files, concatenated by year
MergedTime ==
    [t \in 1..(Len(years) * MonthsPerFile) |->
        <<years[((t - 1) \div MonthsPerFile) + 1], ((t - 1) % MonthsPerFile) + 1>>]

\* p = 100 * ds['z']
cell4_p(level) == [k \in 1..Len(level) |-> FMul(I2F(100), I2F(level[k]))]

\* lat = np.pi * ds['latitude'] / 180
cell4_lat(latitude) ==
    [j \in 1..Len(latitude) |-> FDiv(FMul(Pi, I2F(latitude[j])), I2F(180))]

\* p_surf = p[-1]
cell4_p_surf(p) == p[Len(p)]

\* z = -H * np.log(p / p_surf)
cell4_z(p, ps) == [k \in 1..Len(p) |-> FMul(I2F(-H), Log(FDiv(p[k], ps)))]

\* rho = np.exp(-z / H)
cell4_rho(z) == [k \in 1..Len(z) |-> Exp(FDiv(FNeg(z[k]), I2F(H)))]

OpenDataset ==
    /\ pc = "cell4"
    /\ LET p == cell4_p(grid.level)
           lat == cell4_lat(MergedLat)
           ps == cell4_p_surf(p)
           z == cell4_z(p, ps)
           rho == cell4_rho(z)
       IN /\ p_surf' = ps
          /\ ds' = [time |-> MergedTime, z |-> z, latitude |-> lat,
                    longitude |-> [i \in 1..NLon |-> i], p |-> p, rho |-> rho]
    /\ graph' = {"u", "v", "w_cartesian", "T", "h"}
    /\ pc' = "cell5"
    /\ UNCHANGED <<err, dirs, listing, grid, data, years, ds_fnames, yi, ni,
                   out, job, chunk, mem, disk, writes>>

-----------------------------------------------------------------------------
(* The array operations of xarray, numpy and dask the notebook uses.       *)
(* An array with dimensions (z, latitude, longitude) is A[k][j][i]; the    *)
(* time dimension is carried by the chunks: no operation of the notebook   *)
(* couples two times, and the months of one file hold the same values.     *)

NK == Len(ds.z)
NJ == Len(ds.latitude)

A3(F(_, _, _)) == [k \in 1..NK |-> [j \in 1..NJ |-> [i \in 1..NLon |-> F(k, j, i)]]]

A2(F(_, _)) == [k \in 1..NK |-> [j \in 1..NJ |-> F(k, j)]]

\* the mean of xarray skips NaN (skipna is on for floats): the mean of the
\* values that are not NaN, NaN when there is none
Mean(s) ==
    LET ok == SelectSeq(s, LAMBDA x : ~IsNaN(x))
    IN IF \E n \in 1..Len(s) : IsUnk(s[n]) THEN Unk
       ELSE IF ok = <<>> THEN NaN
       ELSE FDiv(FSum(ok), I2F(Len(ok)))

\* A.mean('longitude')
MeanLon(A) == A2(LAMBDA k, j : Mean(A[k][j]))

\* np.gradient(f, x, edge_order=1) at index n: one-sided differences at the two
\* ends; inside, the central difference when the spacing of x is uniform, and
\* the second-order formula for uneven spacing otherwise
Gradient(f, x, n) ==
    LET N == Len(x)
        dx(m) == FSub(x[m + 1], x[m])
    IN IF n = 1 THEN FDiv(FSub(f[2], f[1]), dx(1))
       ELSE IF n = N THEN FDiv(FSub(f[N], f[N - 1]), dx(N - 1))
       ELSE IF \A m \in 1..(N - 1) : dx(m) = dx(1)
       THEN FDiv(FSub(f[n + 1], f[n - 1]), FMul(I2F(2), dx(1)))
       ELSE LET dx1 == dx(n - 1)
                dx2 == dx(n)
                ca == FNeg(FDiv(dx2, FMul(dx1, FAdd(dx1, dx2))))
                cb == FDiv(FSub(dx2, dx1), FMul(dx1, dx2))
                cc == FDiv(dx1, FMul(dx2, FAdd(dx1, dx2)))
            IN FAdd(FAdd(FMul(ca, f[n - 1]), FMul(cb, f[n])), FMul(cc, f[n + 1]))

\* A.differentiate('z') of A(z, latitude, longitude) and of A(z, latitude)
DiffZ3(A) == A3(LAMBDA k, j, i : Gradient([n \in 1..NK |-> A[n][j][i]], ds.z, k))

DiffZ2(A) == A2(LAMBDA k, j : Gradient([n \in 1..NK |-> A[n][j]], ds.z, k))

\* A.differentiate('latitude') of A(z, latitude)
DiffLat2(A) == A2(LAMBDA k, j : Gradient(A[k], ds.latitude, j))

-----------------------------------------------------------------------------
(* The lazy arrays: what each evaluates to on one time chunk.  m holds the *)
(* arrays of the chunk evaluated so far, by name.                          *)

\* the values of variable n that the combined dataset holds for a chunk
Raw(n) ==
    A3(LAMBDA k, j, i :
        IF MergedLat[j] \in Range(grid.latitude[n])
        THEN Pattern(data[n], k, grid.level[k], MergedLat[j], i)
        ELSE NaN)

\* h = ds['Phi'] / 9.8
h(m) == A3(LAMBDA k, j, i : FDiv(m.Phi[k][j][i], g0))

\* dzdh = 1 / h.differentiate('z')
dzdh(m) == LET dh == DiffZ3(m.h) IN A3(LAMBDA k, j, i : FDiv(One, dh[k][j][i]))

\* a variant of w: the pressure velocity taken as it is, without dzdh
w_unscaled(m) == m.w_cartesian

\* w = dzdh * w_cartesian
w(m) == A3(LAMBDA k, j, i : FMul(m.dzdh[k][j][i], m.w_cartesian[k][j][i]))

\* theta = T * ((p_surf / p) ** 0.286)
theta(m) == A3(LAMBDA k, j, i : FMul(m.T[k][j][i], PowKappa(FDiv(p_surf, ds.p[k]))))

\* theta_bar = theta.mean('longitude')
theta_bar(m) == MeanLon(m.theta)

\* a variant of N2: the derivative taken along the pressure p instead of z
N2_along_p(m) ==
    A2(LAMBDA k, j : Gradient([n \in 1..NK |-> m.theta_bar[n][j]], ds.p, k))

\* N2 = theta_bar.differentiate('z')
N2(m) == DiffZ2(m.theta_bar)

\* v_bar = v.mean('longitude'), w_bar = w.mean('longitude'), u_bar likewise
v_bar(m) == MeanLon(m.v)

w_bar(m) == MeanLon(m.w)

u_bar(m) == MeanLon(m.u)

\* a variant of u_prime: the mean of v taken off instead of the mean of u
u_prime_of_v_bar(m) == A3(LAMBDA k, j, i : FSub(m.u[k][j][i], m.v_bar[k][j]))

\* v_prime = v - v_bar, and likewise w_prime, theta_prime, u_prime
v_prime(m) == A3(LAMBDA k, j, i : FSub(m.v[k][j][i], m.v_bar[k][j]))

w_prime(m) == A3(LAMBDA k, j, i : FSub(m.w[k][j][i], m.w_bar[k][j]))

theta_prime(m) == A3(LAMBDA k, j, i : FSub(m.theta[k][j][i], m.theta_bar[k][j]))

u_prime(m) == A3(LAMBDA k, j, i : FSub(m.u[k][j][i], m.u_bar[k][j]))

\* heat_flux = (v_prime * theta_prime).mean('longitude')
heat_flux(m) ==
    A2(LAMBDA k, j :
        Mean([i \in 1..NLon |-> FMul(m.v_prime[k][j][i], m.theta_prime[k][j][i])]))

\* cos_lat = np.cos(lat)
cos_lat == [j \in 1..NJ |-> Cos(ds.latitude[j])]

\* a variant of v_star: built on w_bar instead of v_bar
v_star_of_w_bar(m) ==
    LET q == A2(LAMBDA k, j : FDiv(FMul(ds.rho[k], m.heat_flux[k][j]), m.N2[k][j]))
        dq == DiffZ2(q)
    IN A2(LAMBDA k, j : FSub(m.w_bar[k][j], FDiv(dq[k][j], ds.rho[k])))

\* v_star = v_bar - (rho * heat_flux / N2).differentiate('z') / rho
v_star(m) ==
    LET q == A2(LAMBDA k, j : FDiv(FMul(ds.rho[k], m.heat_flux[k][j]), m.N2[k][j]))
        dq == DiffZ2(q)
    IN A2(LAMBDA k, j : FSub(m.v_bar[k][j], FDiv(dq[k][j], ds.rho[k])))

\* w_star = w_bar + (cos_lat * heat_flux / N2).differentiate('latitude')
\*                  / (a * cos_lat)
w_star(m) ==
    LET q == A2(LAMBDA k, j : FDiv(FMul(cos_lat[j], m.heat_flux[k][j]), m.N2[k][j]))
        dq == DiffLat2(q)
    IN A2(LAMBDA k, j :
           FAdd(m.w_bar[k][j], FDiv(dq[k][j], FMul(I2F(a), cos_lat[j]))))

\* uv_bar = (u_prime * v_prime).mean('longitude'), uw_bar likewise
uv_bar(m) ==
    A2(LAMBDA k, j :
        Mean([i \in 1..NLon |-> FMul(m.u_prime[k][j][i], m.v_prime[k][j][i])]))

uw_bar(m) ==
    A2(LAMBDA k, j :
        Mean([i \in 1..NLon |-> FMul(m.u_prime[k][j][i], m.w_prime[k][j][i])]))

\* f = 2 * Omega * np.sin(lat)
f == [j \in 1..NJ |-> FMul(FMul(I2F(2), Omega), Sin(ds.latitude[j]))]

\* offset = (u_bar * cos_lat).differentiate('latitude') / (a * cos_lat)
offset(m) ==
    LET q == A2(LAMBDA k, j : FMul(m.u_bar[k][j], cos_lat[j]))
        dq == DiffLat2(q)
    IN A2(LAMBDA k, j : FDiv(dq[k][j], FMul(I2F(a), cos_lat[j])))

\* F_lat = (u_bar.differentiate('z') * heat_flux / N2 - uv_bar) * rho * cos_lat
F_lat(m) ==
    LET du == DiffZ2(m.u_bar)
    IN A2(LAMBDA k, j :
           FMul(FMul(FSub(FDiv(FMul(du[k][j], m.heat_flux[k][j]), m.N2[k][j]),
                          m.uv_bar[k][j]),
                     ds.rho[k]),
                cos_lat[j]))

\* F_z = ((f - offset) * heat_flux / N2 - uw_bar) * rho * a * cos_lat
F_z(m) ==
    A2(LAMBDA k, j :
        FMul(FMul(FMul(FSub(FDiv(FMul(FSub(f[j], m.offset[k][j]), m.heat_flux[k][j]),
                                 m.N2[k][j]),
                            m.uw_bar[k][j]),
                       ds.rho[k]),
                  I2F(a)),
             cos_lat[j]))

\* EPFD = (F_lat.differentiate('latitude') + F_z.differentiate('z'))
\*        / (rho * a * cos_lat)
EPFD(m) ==
    LET dl == DiffLat2(m.F_lat)
        dz == DiffZ2(m.F_z)
    IN A2(LAMBDA k, j :
           FDiv(FAdd(dl[k][j], dz[k][j]), FMul(FMul(ds.rho[k], I2F(a)), cos_lat[j])))

-----------------------------------------------------------------------------
(* Cells 5 to 8 define lazy arrays: nothing is evaluated.                  *)

Cell5 ==
    /\ pc = "cell5"
    /\ graph' = graph \cup {"dzdh", "w"}
    /\ pc' = "cell6"
    /\ UNCHANGED <<err, dirs, listing, grid, data, years, ds_fnames, yi, ni, ds,
                   p_surf, out, job, chunk, mem, disk, writes>>

Cell6 ==
    /\ pc = "cell6"
    /\ graph' = graph \cup {"theta", "theta_bar", "N2"}
    /\ pc' = "cell7"
    /\ UNCHANGED <<err, dirs, listing, grid, data, years, ds_fnames, yi, ni, ds,
                   p_surf, out, job, chunk, mem, disk, writes>>

Cell7 ==
    /\ pc = "cell7"
    /\ graph' = graph \cup {"v_bar", "w_bar", "v_prime", "w_prime", "theta_prime",
                            "heat_flux", "v_star", "w_star"}
    /\ pc' = "cell8"
    /\ UNCHANGED <<err, dirs, listing, grid, data, years, ds_fnames, yi, ni, ds,
                   p_surf, out, job, chunk, mem, disk, writes>>

Cell8 ==
    /\ pc = "cell8"
    /\ graph' = graph \cup {"u_bar", "u_prime", "uv_bar", "uw_bar", "offset",
                            "F_lat", "F_z", "EPFD"}
    /\ pc' = "cell9"
    /\ UNCHANGED <<err, dirs, listing, grid, data, years, ds_fnames, yi, ni, ds,
                   p_surf, out, job, chunk, mem, disk, writes>>

-----------------------------------------------------------------------------
(* Cell 9: the output dataset, the delayed write, and its computation.     *)

\* xr.Dataset({...}): the variable of the output and the array it is made of
OutSource ==
    [x \in {"u", "v", "w", "T", "h", "theta", "N2", "heat_flux", "v_star", "w_star",
            "EPFD"} |-> IF x = "w" THEN "w_cartesian" ELSE x]

\* the arrays that have a longitude dimension
HasLon == {"u", "v", "w_cartesian", "T", "Phi", "h", "dzdh", "w", "theta",
           "v_prime", "w_prime", "theta_prime", "u_prime"}

\* a variant of cell9_p: the pressure left in Pa
cell9_p_in_Pa(z, ps) ==
    [k \in 1..Len(z) |-> FMul(ps, Exp(FDiv(FNeg(z[k]), I2F(H))))]

\* p = p_surf * np.exp(-ds['pressure'] / H) / 100
cell9_p(z, ps) ==
    [k \in 1..Len(z) |-> FDiv(FMul(ps, Exp(FDiv(FNeg(z[k]), I2F(H)))), I2F(100))]

\* lat = 180 * ds['latitude'] / np.pi
cell9_lat(latitude) ==
    [j \in 1..Len(latitude) |-> FDiv(FMul(I2F(180), latitude[j]), Pi)]

\* ds = xr.Dataset({...}).mean('longitude').rename(...); the coordinates are
\* reverted; nothing is evaluated
Cell9Assemble ==
    /\ pc = "cell9"
    /\ out' = [time |-> ds.time,
               pressure |-> cell9_p(ds.z, p_surf),
               latitude |-> cell9_lat(ds.latitude),
               vars |-> DOMAIN OutSource]
    /\ pc' = "cell9_to_netcdf"
    /\ UNCHANGED <<err, dirs, listing, grid, data, years, ds_fnames, yi, ni, ds,
                   p_surf, graph, job, chunk, mem, disk, writes>>

\* a variant of ToNetcdf: compute=True, the default; the write is run at once
\* and nothing is returned
ToNetcdfEager ==
    /\ pc = "cell9_to_netcdf"
    /\ disk' = [exists |-> TRUE,
                coords |-> [time |-> out.time, pressure |-> out.pressure,
                            latitude |-> out.latitude],
                chunks |-> <<>>,
                closed |-> FALSE]
    /\ job' = "None"
    /\ writes' = writes + 1
    /\ pc' = "schedule"
    /\ UNCHANGED <<err, dirs, listing, grid, data, years, ds_fnames, yi, ni, ds,
                   p_surf, graph, out, chunk, mem>>

\* job = ds.to_netcdf(path, compute=False): the file is created at the output
\* path and the coordinates (numpy arrays) are written; the write of the dask
\* arrays is returned as a delayed job
ToNetcdf ==
    /\ pc = "cell9_to_netcdf"
    /\ disk' = [exists |-> TRUE,
                coords |-> [time |-> out.time, pressure |-> out.pressure,
                            latitude |-> out.latitude],
                chunks |-> <<>>,
                closed |-> FALSE]
    /\ job' = "delayed"
    /\ pc' = "cell9_compute"
    /\ UNCHANGED <<err, dirs, listing, grid, data, years, ds_fnames, yi, ni, ds,
                   p_surf, graph, out, chunk, mem, writes>>

\* the file cannot be created (no permission, no space): the run stops
ToNetcdfFail ==
    /\ pc = "cell9_to_netcdf"
    /\ err' = "OSError"
    /\ pc' = "error"
    /\ UNCHANGED <<dirs, listing, grid, data, years, ds_fnames, yi, ni, ds,
                   p_surf, graph, out, job, chunk, mem, disk, writes>>

\* job.compute(): the one trigger of the evaluation
JobCompute ==
    /\ pc = "cell9_compute"
    /\ job = "delayed"
    /\ writes' = writes + 1
    /\ pc' = "schedule"
    /\ UNCHANGED <<err, dirs, listing, grid, data, years, ds_fnames, yi, ni, ds,
                   p_surf, graph, out, job, chunk, mem, disk>>

Chunks == 1..Len(years)

\* dask takes up a time chunk that is not stored yet (in any order)
StartChunk ==
    /\ pc = "schedule"
    /\ \E c \in Chunks \ DOMAIN disk.chunks : chunk' = c
    /\ mem' = <<>>
    /\ pc' = "evaluate"
    /\ UNCHANGED <<err, dirs, listing, grid, data, years, ds_fnames, yi, ni, ds,
                   p_surf, graph, out, job, disk, writes>>

\* the arrays a lazy array is computed from
Deps(n) ==
    CASE n \in {"u", "v", "w_cartesian", "T", "Phi"} -> {}
      [] n = "h" -> {"Phi"}
      [] n = "dzdh" -> {"h"}
      [] n = "w" -> {"dzdh", "w_cartesian"}
      [] n = "theta" -> {"T"}
      [] n = "theta_bar" -> {"theta"}
      [] n = "N2" -> {"theta_bar"}
      [] n = "v_bar" -> {"v"}
      [] n = "w_bar" -> {"w"}
      [] n = "u_bar" -> {"u"}
      [] n = "v_prime" -> {"v", "v_bar"}
      [] n = "w_prime" -> {"w", "w_bar"}
      [] n = "theta_prime" -> {"theta", "theta_bar"}
      [] n = "u_prime" -> {"u", "u_bar"}
      [] n = "heat_flux" -> {"v_prime", "theta_prime"}
      [] n = "v_star" -> {"v_bar", "heat_flux", "N2"}
      [] n = "w_star" -> {"w_bar", "heat_flux", "N2"}
      [] n = "uv_bar" -> {"u_prime", "v_prime"}
      [] n = "uw_bar" -> {"u_prime", "w_prime"}
      [] n = "offset" -> {"u_bar"}
      [] n = "F_lat" -> {"u_bar", "heat_flux", "N2", "uv_bar"}
      [] n = "F_z" -> {"offset", "heat_flux", "N2", "uw_bar"}
      [] n = "EPFD" -> {"F_lat", "F_z"}

\* what the lazy array n evaluates to, given the arrays m it is computed from
Value(n, m) ==
    CASE n = "u" -> Raw("u")
      [] n = "v" -> Raw("v")
      [] n = "w_cartesian" -> Raw("w")
      [] n = "T" -> Raw("T")
      [] n = "Phi" -> Raw("Z")
      [] n = "h" -> h(m)
      [] n = "dzdh" -> dzdh(m)
      [] n = "w" -> w(m)
      [] n = "theta" -> theta(m)
      [] n = "theta_bar" -> theta_bar(m)
      [] n = "N2" -> N2(m)
      [] n = "v_bar" -> v_bar(m)
      [] n = "w_bar" -> w_bar(m)
      [] n = "u_bar" -> u_bar(m)
      [] n = "v_prime" -> v_prime(m)
      [] n = "w_prime" -> w_prime(m)
      [] n = "theta_prime" -> theta_prime(m)
      [] n = "u_prime" -> u_prime(m)
      [] n = "heat_flux" -> heat_flux(m)
      [] n = "v_star" -> v_star(m)
      [] n = "w_star" -> w_star(m)
      [] n = "uv_bar" -> uv_bar(m)
      [] n = "uw_bar" -> uw_bar(m)
      [] n = "offset" -> offset(m)
      [] n = "F_lat" -> F_lat(m)
      [] n = "F_z" -> F_z(m)
      [] n = "EPFD" -> EPFD(m)

AllNodes == graph \cup {"Phi"}

Ready == {n \in AllNodes \ DOMAIN mem : Deps(n) \subseteq DOMAIN mem}

\* dask evaluates the arrays whose inputs are there
Evaluate ==
    /\ pc = "evaluate"
    /\ Ready # {}
    /\ mem' = [n \in DOMAIN mem \cup Ready |->
                 IF n \in DOMAIN mem THEN mem[n] ELSE Value(n, mem)]
    /\ UNCHANGED <<pc, err, dirs, listing, grid, data, years, ds_fnames, yi, ni, ds,
                   p_surf, graph, out, job, chunk, disk, writes>>

\* .mean('longitude') of the output dataset: of the variables that have the
\* dimension
Reduced(x) ==
    IF OutSource[x] \in HasLon THEN MeanLon(mem[OutSource[x]]) ELSE mem[OutSource[x]]

\* the variables of the chunk are written to the file
StoreChunk ==
    /\ pc = "evaluate"
    /\ Ready = {}
    /\ disk' = [disk EXCEPT !.chunks =
                  [c \in DOMAIN disk.chunks \cup {chunk} |->
                     IF c = chunk THEN [x \in out.vars |-> Reduced(x)]
                     ELSE disk.chunks[c]]]
    /\ mem' = <<>>
    /\ pc' = IF DOMAIN disk.chunks \cup {chunk} = Chunks THEN "finalize" ELSE "schedule"
    /\ UNCHANGED <<err, dirs, listing, grid, data, years, ds_fnames, yi, ni, ds,
                   p_surf, graph, out, job, chunk, writes>>

\* a variant of StoreFail: the file is removed when the write fails
StoreFailCleanup ==
    /\ pc = "evaluate"
    /\ Ready = {}
    /\ err' = "OSError"
    /\ pc' = "error"
    /\ disk' = [exists |-> FALSE, coords |-> <<>>, chunks |-> <<>>, closed |-> FALSE]
    /\ UNCHANGED <<dirs, listing, grid, data, years, ds_fnames, yi, ni, ds,
                   p_surf, graph, out, job, chunk, mem, writes>>

\* the write fails (the disk is full, the job is interrupted): the exception
\* reaches the notebook, the file stays as it is
StoreFail ==
    /\ pc = "evaluate"
    /\ Ready = {}
    /\ err' = "OSError"
    /\ pc' = "error"
    /\ UNCHANGED <<dirs, listing, grid, data, years, ds_fnames, yi, ni, ds,
                   p_surf, graph, out, job, chunk, mem, disk, writes>>

\* every chunk is stored: the file is closed and the cell ends
Finalize ==
    /\ pc = "finalize"
    /\ disk' = [disk EXCEPT !.closed = TRUE]
    /\ pc' = "done"
    /\ UNCHANGED <<err, dirs, listing, grid, data, years, ds_fnames, yi, ni, ds,
                   p_surf, graph, out, job, chunk, mem, writes>>

Next ==
    \/ ListYears
    \/ DiscoverFile
    \/ DiscoverMissing
    \/ DiscoverDone
    \/ OpenDataset
    \/ Cell5
    \/ Cell6
    \/ Cell7
    \/ Cell8
    \/ Cell9Assemble
    \/ ToNetcdf
    \/ ToNetcdfFail
    \/ JobCompute
    \/ StartChunk
    \/ Evaluate
    \/ StoreChunk
    \/ StoreFail
    \/ Finalize

-----------------------------------------------------------------------------
(* Specifications: the same program, over different families of inputs.    *)

UniformGrid(level, latitude) ==
    [level |-> level, latitude |-> [n \in NameSet |-> latitude]]

DataOf(pu, pv, pw, pT, pZ) ==
    [n \in NameSet |->
        CASE n = "u" -> pu [] n = "v" -> pv [] n = "w" -> pw [] n = "T" -> pT
          [] n = "Z" -> pZ]

\* the pipeline over complete and incomplete archives, and over archives whose
\* files disagree on the latitudes
Spec ==
    /\ InitOf(DirSets,
              {DefaultGrid,
               [DefaultGrid EXCEPT !.latitude["v"] = <<60, 0, -60>>],
               [DefaultGrid EXCEPT !.latitude["T"] = <<90, 60, 0, -60, -90>>]},
              {DefaultData})
    /\ [][Next]_vars

\* the coordinates: every level sequence and latitude grid
SpecCoord ==
    /\ InitOf({{FirstYear}},
              {UniformGrid(l, g) : l \in LevelSeqs, g \in LatGrids},
              {DefaultData})
    /\ [][Next]_vars

\* the static stability: every temperature profile over ProfileT, on the level
\* sequences of full length
ProfileT == {240, 288, 400}

SpecN2 ==
    /\ InitOf({{FirstYear}},
              {UniformGrid(l, DefaultLat) : l \in {s \in LevelSeqs : Len(s) = MaxLevels}},
              {[DefaultData EXCEPT !["T"] = Profile(s)] :
                  s \in [1..MaxLevels -> ProfileT]})
    /\ [][Next]_vars

\* the fields: one year of input, over the patterns of the variables
FieldGrids ==
    {UniformGrid(<<256, 512, 1024>>, <<90, 0, -90>>),
     UniformGrid(<<128, 512, 1024>>, <<90, 60, 0, -60, -90>>),
     UniformGrid(<<1024, 512, 256>>, <<60, 0, -60>>)}

SpecFields ==
    /\ InitOf({{FirstYear}},
              FieldGrids,
              {DataOf(Pat(pu), Pat(pv), Pat(pw), Pat(pT), Pat(pZ)) :
                  pu \in {"sinlat", "wave"}, pv \in {"zero", "wave"},
                  pw \in {"zero", "one", "wave"},
                  pT \in {"lapse", "warmwave", "warmwave2", "isentropic"},
                  pZ \in {"const", "hydro", "hydrowave"}})
    /\ [][Next]_vars

\* the end-to-end run: two years of input; the synthetic fields, with a
\* constant and with a hydrostatic geopotential, and the default ones
SpecEndToEnd ==
    /\ InitOf({{FirstYear, FirstYear + 1}},
              FieldGrids \cup {UniformGrid(DefaultLevel, g) : g \in LatGrids},
              {DataOf(Pat("sinlat"), Pat("zero"), Pat("zero"), Pat("lapse"), Pat(pZ)) :
                  pZ \in {"const", "hydro"}} \cup {DefaultData})
    /\ [][Next]_vars

-----------------------------------------------------------------------------
(* The claims: file discovery, the coordinates, the write.                 *)

NoFileFor(y, n) == FileOf(n) \notin listing[y]

InputMissing == \E y \in dirs : \E n \in NameSet : NoFileFor(y, n)

\* C1: when the file of some variable is missing for some year, the run stops
\* in the file discovery (cell 3) with the error of the empty match: the
\* dataset is never opened, nothing is defined or evaluated, and no output
\* file is created.
C1_MissingFileAborts ==
    InputMissing =>
        /\ pc \in {"cell2", "cell3", "error"}
        /\ pc = "error" => err = "IndexError"
        /\ ds = <<>> /\ graph = {} /\ out = <<>> /\ mem = <<>>
        /\ ~disk.exists /\ writes = 0

C1_Witness ==
    /\ InputMissing
    /\ pc = "error" /\ err = "IndexError"
    /\ Decoy \in listing[years[yi]]
    /\ ~disk.exists

MaxLevel == CHOOSE x \in Range(grid.level) : \A y \in Range(grid.level) : y <= x

\* a finite number is >= 0, <= 1
NonNeg(x) == IsFinite(x) /\ x[1] >= 0

AtMostOne(x) == IsFinite(x) /\ x[1] <= x[2]

\* C2: whatever the order the levels are stored in, p_surf is the pressure of
\* the level of maximum pressure, so that z >= 0 and rho <= 1 at every level,
\* with z = 0 and rho = 1 at the surface level.
C2_SurfaceIsMaxPressure ==
    ds # <<>> =>
        /\ p_surf = FMul(I2F(100), I2F(MaxLevel))
        /\ \A k \in 1..NK : NonNeg(ds.z[k]) /\ AtMostOne(ds.rho[k])
        /\ \A k \in 1..NK :
              grid.level[k] = MaxLevel => ds.z[k] = Zero /\ ds.rho[k] = One

\* the levels stored from the top down: the case in which C2 does hold
C2_Witness ==
    /\ ds # <<>>
    /\ grid.level[NK] = MaxLevel
    /\ p_surf = FMul(I2F(100), I2F(MaxLevel))
    /\ \A k \in 1..NK : NonNeg(ds.z[k]) /\ AtMostOne(ds.rho[k])

InputLevels == [k \in 1..Len(grid.level) |-> I2F(grid.level[k])]

InputLatitudes == [j \in 1..Len(MergedLat) |-> I2F(MergedLat[j])]

\* C3: the conversions of the coordinates are undone exactly: the pressure
\* of the output is the level of the input (hPa), its latitude the latitude
\* of the input (degrees), in the dataset handed to the write and in the
\* file; in between, the dataset holds the converted coordinates.
C3_CoordinatesRoundTrip ==
    /\ ds # <<>> =>
          /\ ds.z = cell4_z(cell4_p(grid.level), p_surf)
          /\ ds.latitude = cell4_lat(MergedLat)
    /\ out # <<>> =>
          /\ out.pressure = InputLevels
          /\ out.latitude = InputLatitudes
    /\ disk.exists =>
          /\ disk.coords.pressure = InputLevels
          /\ disk.coords.latitude = InputLatitudes

C3_Witness ==
    /\ pc = "done"
    /\ grid.level = <<1024, 512, 256>>
    /\ disk.coords.pressure = <<I2F(1024), I2F(512), I2F(256)>>
    /\ disk.coords.latitude = <<I2F(90), I2F(60), I2F(0), I2F(-60), I2F(-90)>>
    /\ ds.z # InputLevels /\ ds.latitude # InputLatitudes

AllArrays ==
    {"u", "v", "w_cartesian", "T", "h", "dzdh", "w", "theta", "theta_bar", "N2",
     "v_bar", "w_bar", "v_prime", "w_prime", "theta_prime", "heat_flux", "v_star",
     "w_star", "u_bar", "u_prime", "uv_bar", "uw_bar", "offset", "F_lat", "F_z",
     "EPFD"}

C5_State ==
    /\ writes = 0 => mem = <<>> /\ disk.chunks = <<>>
    /\ writes <= 1
    /\ writes = 1 =>
          /\ job = "delayed"
          /\ graph = AllArrays
          /\ out # <<>> /\ out.vars = DOMAIN OutSource
          /\ pc \in {"schedule", "evaluate", "finalize", "done", "error"}
    /\ pc = "done" => writes = 1 /\ DOMAIN disk.chunks = Chunks /\ disk.closed

C5_Step ==
    /\ job = "delayed" => out' = out
    /\ writes' # writes => pc = "cell9_compute"
    /\ disk'.chunks # disk.chunks =>
          \E c \in Chunks \ DOMAIN disk.chunks :
              /\ DOMAIN disk'.chunks = DOMAIN disk.chunks \cup {c}
              /\ \A d \in DOMAIN disk.chunks : disk'.chunks[d] = disk.chunks[d]

\* C5: nothing is evaluated and no data is written before the one trigger,
\* job.compute(), the last statement of the notebook; it is run once; every
\* chunk is written once and never rewritten; the output dataset is complete
\* when it is handed to the write and is not changed afterwards.
C5_LazyUntilCompute == [](C5_State) /\ [][C5_Step]_vars

C5_Witness ==
    /\ pc = "done" /\ writes = 1 /\ Len(years) = MaxYears
    /\ DOMAIN disk.chunks = Chunks

C6_State ==
    /\ err # "none" <=> pc = "error"
    /\ err = "IndexError" => ~disk.exists /\ ds = <<>>
    /\ err = "OSError" /\ job = "none" => ~disk.exists
    /\ err = "OSError" /\ job # "none" =>
          /\ writes = 1
          /\ disk.exists /\ ~disk.closed
          /\ DOMAIN disk.chunks \subseteq Chunks
          /\ DOMAIN disk.chunks # Chunks

LatMismatch == \E n1, n2 \in NameSet : grid.latitude[n1] # grid.latitude[n2]

\* C7: when the files of two variables are on different latitudes, the
\* mismatch is detected: the run fails, and no array is evaluated.
C7_MismatchDetected == LatMismatch => mem = <<>> /\ pc # "done"

\* the run that C7 excludes: ended without an error, the file written
C7_Witness ==
    /\ LatMismatch
    /\ pc = "done" /\ err = "none"
    /\ \E k \in 1..NK : \E j \in 1..NJ : IsNaN(disk.chunks[1]["v"][k][j])

-----------------------------------------------------------------------------
(* The claims: the fields.                                                 *)

\* every lazy array of the chunk is evaluated
Evaluated == pc \in {"evaluate", "error"} /\ AllArrays \subseteq DOMAIN mem

Positive(x) == IsFinite(x) /\ x[1] > 0

Negative(x) == IsFinite(x) /\ x[1] < 0

\* a number that is known not to be positive: a finite one <= 0, -inf
NonPositive(x) == (IsFinite(x) /\ x[1] <= 0) \/ x = <<-1, 0>>

\* the 2-year synthetic input of the end-to-end test: u = sin(lat), v = 0,
\* w = 0, T = 280 - 5 * level_index, constant geopotential
C4_Scenario ==
    /\ Len(years) = 2
    /\ data = DataOf(Pat("sinlat"), Pat("zero"), Pat("zero"), Pat("lapse"),
                     Pat("const"))

AwayFromPoles(j) == Abs(MergedLat[j]) # 90

N2Evaluated == pc \in {"evaluate", "error"} /\ "N2" \in DOMAIN mem

\* the slope of theta_bar between the levels k and k + 1 of column j, along z
Slope(k, j) ==
    FDiv(FSub(mem.theta_bar[k + 1][j], mem.theta_bar[k][j]),
         FSub(ds.z[k + 1], ds.z[k]))

\* theta_bar increases with height everywhere on column j
Stable(j) == \A k \in 1..(NK - 1) : Positive(Slope(k, j))

\* theta_bar decreases with height between the levels r and r + 1 of column
\* j, and increases between every other two
ReversedAt(r, j) ==
    /\ Negative(Slope(r, j))
    /\ \A k \in (1..(NK - 1)) \ {r} : Positive(Slope(k, j))

HeatFluxZero == \A k \in 1..NK : \A j \in 1..NJ : mem.heat_flux[k][j] = Zero

N2NonZero ==
    \A k \in 1..NK : \A j \in 1..NJ :
        IsFinite(mem.N2[k][j]) /\ mem.N2[k][j] # Zero

\* the same value (the same number, both NaN, the same infinity)
StarIsMean ==
    \A k \in 1..NK : \A j \in 1..NJ :
        /\ mem.v_star[k][j] = mem.v_bar[k][j]
        /\ mem.w_star[k][j] = mem.w_bar[k][j]

\* no value of the four arrays is outside the numbers the model tracks
StarTracked ==
    \A k \in 1..NK : \A j \in 1..NJ :
        /\ ~IsUnk(mem.v_star[k][j]) /\ ~IsUnk(mem.w_star[k][j])
        /\ ~IsUnk(mem.v_bar[k][j]) /\ ~IsUnk(mem.w_bar[k][j])

\* C9, as the spec states it: when the heat flux is zero everywhere, v_star
\* is v_bar and w_star is w_bar, exactly.
C9_ZeroFluxLimit == Evaluated /\ HeatFluxZero /\ StarTracked => StarIsMean

\* C9, amended: when the heat flux is zero everywhere and N2 is not zero
\* anywhere, v_star is v_bar and w_star is w_bar, exactly (NaN or infinite
\* where w_bar is).
C9_ZeroFluxLimitAmended ==
    Evaluated /\ HeatFluxZero /\ N2NonZero => StarIsMean /\ StarTracked

C9_Witness ==
    /\ Evaluated /\ HeatFluxZero /\ N2NonZero /\ StarIsMean
    /\ \E k \in 1..NK : \E j \in 1..NJ : \E i \in 1..NLon :
          /\ mem.v_prime[k][j][i] # Zero
          /\ mem.theta_prime[k][j][i] # Zero
          /\ Positive(mem.w_star[k][j])

Decomposed == {"u", "v", "w", "theta"}

PrimeOf(F) ==
    CASE F = "u" -> "u_prime" [] F = "v" -> "v_prime" [] F = "w" -> "w_prime"
      [] F = "theta" -> "theta_prime"

\* F is a number, or missing, at every longitude of the point, and a number at
\* one at least
Averageable(F, k, j) ==
    /\ \A i \in 1..NLon : IsFinite(mem[F][k][j][i]) \/ IsNaN(mem[F][k][j][i])
    /\ \E i \in 1..NLon : IsFinite(mem[F][k][j][i])

\* C10, as the spec states it: the eddy part of u, v, w and theta has zonal
\* mean zero at every point.
C10_EddyMeanZero ==
    Evaluated =>
        \A F \in Decomposed : \A k \in 1..NK : \A j \in 1..NJ :
            \/ Mean(mem[PrimeOf(F)][k][j]) = Zero
            \/ IsUnk(Mean(mem[PrimeOf(F)][k][j]))

\* C10, amended: the eddy part of u, v, w and theta has zonal mean zero (the
\* mean that skips NaN) at every point where the field has no infinite value
\* and is not NaN at every longitude; where it is a number at every
\* longitude, the sum of the eddy part over the longitudes is zero.
C10_EddyMeanZeroAmended ==
    Evaluated =>
        \A F \in Decomposed : \A k \in 1..NK : \A j \in 1..NJ :
            /\ Averageable(F, k, j) => Mean(mem[PrimeOf(F)][k][j]) = Zero
            /\ (\A i \in 1..NLon : IsFinite(mem[F][k][j][i]))
                  => FSum(mem[PrimeOf(F)][k][j]) = Zero

C10_Witness ==
    /\ Evaluated
    /\ \E k \in 1..NK : \E j \in 1..NJ :
          /\ Averageable("w", k, j)
          /\ \E i \in 1..NLon : IsNaN(mem.w[k][j][i])
          /\ Mean(mem.w_prime[k][j]) = Zero
          /\ \E i \in 1..NLon : Positive(mem.theta_prime[k][j][i])
          /\ FSum(mem.theta_prime[k][j]) = Zero

====
